---- MODULE Spec2Model ----
(***************************************************************************)
(* Interval-consistency and work-selection engine of the pipeline tracker: *)
(* the Snowflake query client (snowflake_utils/snowflake_query_client.py)  *)
(* and the engine operations built on it (pipeline_logic_scripts/          *)
(* snowflake_funcs/overlap_checks.py, snowflake_tasks.py,                  *)
(* create_table_if_not_exists_func.py).                                    *)
(*                                                                         *)
(* Time is a line of integer instants; a day is DayLen consecutive         *)
(* instants.  An ISO-8601 timestamp string is the pair <<day, time of      *)
(* day>>, a malformed string is the empty sequence.  The store is a        *)
(* function from namespace (database, schema) and table name to a table;   *)
(* a table's rows are a set of records whose fields are the columns the    *)
(* queries read.  A row's identity is its column values.  The operations'  *)
(* logging calls (utils/log_utils.py) change no state and are left out.    *)
(***************************************************************************)
EXTENDS Integers, Sequences, FiniteSets, TLC

\* ------------------------------------------------------------------ bounds
MaxT == 5
DayLen == 4
MaxRows == 2
MaxOverlapRows == 1
MaxGapRows == 4
MaxScanRows == 3
NumWorkers == 2
NumProducers == 2
NumReaders == 2
MaxEngineRows == 1
MaxScopeRows == 2

\* ---------------------------------------------------------------- domains
Times == 0..MaxT
Days == 0..(MaxT \div DayLen)
PipelineNames == {"p1", "p2"}
IndexNames == {"i1", "i2"}
Statuses == {"pending", "in_progress", "completed", "failed"}
Databases == {"DB1", "DB2"}
Schemas == {"S1"}
TableNames == {"t1", "t2"}
Namespaces == Databases \X Schemas
DefaultNs == <<"DB1", "S1">>
TrackTable == "t1"
Failures == {"none", "connect", "execute"}

VARIABLES
  store,       \* the Snowflake account: namespace -> table name -> table
  connection,  \* SnowflakeQueryClient.connection: "none" or "open"
  session,     \* the open connection's current <<database, schema>>
  call,        \* the engine operation invoked last, with its arguments
  ret,         \* what that invocation returned or raised
  wpc, wrec,   \* claim workers: position, record selected
  ppc, pcand, pfound, \* producers: position, candidate, overlap-check result
  rpc, rres    \* readers sharing one client: position, result

vars == <<store, connection, session, call, ret, wpc, wrec, ppc, pcand, pfound, rpc, rres>>

\* ------------------------------------------------------------ timestamps
\* date(ts): the day an instant falls in (query_window_*_day, DATE(ts)).
DayOf(t) == t \div DayLen

\* datetime.isoformat(): the textual form of an instant.
isoformat(t) == <<t \div DayLen, t % DayLen>>

Malformed == <<>>

\* datetime.fromisoformat(s) succeeds.
IsIso(s) == Len(s) = 2

\* datetime.fromisoformat(s).date().isoformat(): the date part of the text.
DateIso(s) == <<s[1]>>

\* The store's cast of a bound text parameter to a timestamp / to a date.
ToTimestamp(s) == s[1] * DayLen + s[2]
ToDate(d) == d[1]

IsoStrings == {isoformat(t) : t \in Times} \cup {Malformed}

\* ------------------------------------------------------------------ rows
\* One interval record, with the derived day keys the producer stores.
Row(p, i, s, e, st) ==
  [pipeline_name |-> p, index_name |-> i,
   query_window_start_ts |-> s, query_window_end_ts |-> e,
   query_window_start_day |-> DayOf(s), query_window_end_day |-> DayOf(e),
   pipeline_status |-> st]

Intervals == {<<s, e>> \in Times \X Times : s < e}

NoTable == [exists |-> FALSE, def |-> "none", rows |-> {}]
Table(d, rows) == [exists |-> TRUE, def |-> d, rows |-> rows]

EmptyStore == [ns \in Namespaces |-> [t \in TableNames |-> NoTable]]

\* The account with the tracking table t1 in DB1.S1 holding `rows`.
StoreWith(rows) ==
  [EmptyStore EXCEPT ![DefaultNs][TrackTable] = Table("d1", rows)]

\* The rows of the tracking table in the account st.
TrackRowsOf(st) == st[DefaultNs][TrackTable].rows

\* The subsets of S with at most n elements.
RECURSIVE SubsetsUpTo(_, _)
SubsetsUpTo(S, n) ==
  IF n = 0 THEN {{}}
  ELSE LET P == SubsetsUpTo(S, n - 1)
       IN P \cup {T \cup {x} : T \in P, x \in S}

\* ---------------------------------------------------------------- client
NoCall == [op |-> "none"]
NoRet == [kind |-> "none", cause |-> "", data |-> {}, store_calls |-> 0]
Ok(data) == [kind |-> "ok", cause |-> "", data |-> data, store_calls |-> 1]

\* An exception: its type, the original error its message carries, and the
\* number of store calls made before it was raised.
Raised(kind, cause, n) ==
  [kind |-> kind, cause |-> cause, data |-> {}, store_calls |-> n]

\* get_active_connection fails: _create_snowflake_connection raises
\* ConnectionError, outside the caller's try block.
ConnectFails(f) == connection # "open" /\ f = "connect"

\* The query's table resolves in the namespace the two USE statements set.
TableOf(database, schema, table_name) == store[<<database, schema>>][table_name]

\* cursor.execute(query) raises: the store fails, or the table is missing.
ExecuteFails(f, database, schema, table_name) ==
  f = "execute" \/ ~TableOf(database, schema, table_name).exists

\* The error cursor.execute raises.
ExecuteError(f) == IF f = "execute" THEN "store failure" ELSE "table missing"

\* fetch_all_rows_as_dataframe: get_active_connection, USE DATABASE,
\* USE SCHEMA, execute, fetch_pandas_all; any exception inside the try is
\* re-raised as RuntimeError.  `returned` is what the engine operation
\* makes of the query's result on the table; the engine re-raises a failure.
fetch_all_rows_as_dataframe(f, database, schema, table_name, returned) ==
  IF ConnectFails(f)
  THEN /\ ret' = Raised("ConnectionError", "connect failed", 0)
       /\ UNCHANGED <<connection, session>>
  ELSE /\ connection' = "open"
       /\ session' = <<database, schema>>
       /\ ret' = IF ExecuteFails(f, database, schema, table_name)
                 THEN Raised("RuntimeError", ExecuteError(f), 1)
                 ELSE Ok(returned)

\* ------------------------------------------------------- overlap detector
\* A plausible slip: strict day comparisons, as in the exact test.
DayPrefilterStrict(r, pipeline_name, index_name, start_day, end_day) ==
  /\ r.query_window_start_day < ToDate(end_day)
  /\ r.query_window_end_day > ToDate(start_day)
  /\ r.pipeline_name = pipeline_name
  /\ r.index_name = index_name

\* overlap_checks.py, the filtered_day_records CTE: day-bucket pre-filter.
DayPrefilter(r, pipeline_name, index_name, start_day, end_day) ==
  /\ r.query_window_start_day <= ToDate(end_day)
  /\ r.query_window_end_day >= ToDate(start_day)
  /\ r.pipeline_name = pipeline_name
  /\ r.index_name = index_name

\* A plausible slip: inclusive comparisons, touching windows overlap.
OverlapsExactInclusive(r, start_ts, end_ts) ==
  /\ r.query_window_start_ts <= ToTimestamp(end_ts)
  /\ r.query_window_end_ts >= ToTimestamp(start_ts)

\* overlap_checks.py, the outer WHERE: the exact open-interval test.
OverlapsExact(r, start_ts, end_ts) ==
  /\ r.query_window_start_ts < ToTimestamp(end_ts)
  /\ r.query_window_end_ts > ToTimestamp(start_ts)

OverlapQuery(rows, pipeline_name, index_name, start_ts, end_ts) ==
  LET start_day == DateIso(start_ts)
      end_day == DateIso(end_ts)
      filtered_day_records ==
        {r \in rows : DayPrefilter(r, pipeline_name, index_name, start_day, end_day)}
  IN {r \in filtered_day_records : OverlapsExact(r, start_ts, end_ts)}

find_overlapping_records_for_input(f, pipeline_name, index_name, start_ts, end_ts, database, schema, table) ==
  /\ call' = [op |-> "find_overlapping_records_for_input",
              pipeline_name |-> pipeline_name, index_name |-> index_name,
              start_ts |-> start_ts, end_ts |-> end_ts,
              database |-> database, schema |-> schema, table |-> table]
  /\ IF ~IsIso(start_ts) \/ ~IsIso(end_ts)
     THEN /\ ret' = Raised("ValueError", "invalid timestamp", 0)
          /\ UNCHANGED <<connection, session>>
     ELSE fetch_all_rows_as_dataframe(f, database, schema, table,
            OverlapQuery(TableOf(database, schema, table).rows,
                         pipeline_name, index_name, start_ts, end_ts))
  /\ UNCHANGED <<store, wpc, wrec, ppc, pcand, pfound, rpc, rres>>

\* The texts a caller may pass for an identifier: a name, or the empty string.
NameInputs(names) == names \cup {""}

\* The admission check, on every input.
CheckOverlap ==
  \E f \in Failures, pipeline_name \in NameInputs(PipelineNames),
     index_name \in NameInputs(IndexNames),
     start_ts \in IsoStrings, end_ts \in IsoStrings, database \in Databases :
    find_overlapping_records_for_input(f, pipeline_name, index_name, start_ts,
                                       end_ts, database, "S1", TrackTable)

\* Rows the overlap specification draws its tables from.
OverlapRows ==
  {Row(p, "i1", iv[1], iv[2], "pending") : p \in PipelineNames, iv \in Intervals}

Idle ==
  /\ connection = "none" /\ session = DefaultNs
  /\ call = NoCall /\ ret = NoRet
  /\ wpc = <<>> /\ wrec = <<>>
  /\ ppc = <<>> /\ pcand = <<>> /\ pfound = <<>>
  /\ rpc = <<>> /\ rres = <<>>

InitOverlap ==
  /\ \E rows \in SubsetsUpTo(OverlapRows, MaxOverlapRows) : store = StoreWith(rows)
  /\ Idle

\* The synchronous caller takes the result before it calls again.
Return ==
  /\ call # NoCall
  /\ call' = NoCall /\ ret' = NoRet
  /\ UNCHANGED <<store, connection, session, wpc, wrec, ppc, pcand, pfound, rpc, rres>>

NextOverlap ==
  \/ call = NoCall /\ CheckOverlap
  \/ Return

SpecOverlap == InitOverlap /\ [][NextOverlap]_vars

\* ------------------------------------------------- status work selector
None == [pipeline_status |-> "None"]
SelectStatuses == Statuses \cup {"bogus"}

\* record_dict: every datetime value of the row becomes its ISO text; the
\* day keys are dates, not datetimes, and stay as they are.
record_dict(r) ==
  [r EXCEPT !.query_window_start_ts = isoformat(@),
            !.query_window_end_ts = isoformat(@)]

\* WHERE pipeline_status = %(pipeline_status)s
WithStatus(rows, pipeline_status) ==
  {r \in rows : r.pipeline_status = pipeline_status}

\* A plausible slip: the ordering direction is swapped.
FirstAscSwapped(rows) ==
  {r \in rows : \A q \in rows : r.query_window_start_ts >= q.query_window_start_ts}

\* ORDER BY query_window_start_ts ASC: the rows the sort may put first.  The
\* sort key is the start alone, so rows that tie on it may come in any order.
FirstAsc(rows) ==
  {r \in rows : \A q \in rows : r.query_window_start_ts <= q.query_window_start_ts}

\* ORDER BY query_window_start_ts DESC: the rows the sort may put first.
FirstDesc(rows) ==
  {r \in rows : \A q \in rows : r.query_window_start_ts >= q.query_window_start_ts}

\* LIMIT 1: the DataFrames the query may return, as sequences of rows.
LimitOne(firsts) == IF firsts = {} THEN {<<>>} ELSE {<<r>> : r \in firsts}

\* df.empty -> record None; else the first row as a dict.
PickedRecord(df) == IF df = <<>> THEN None ELSE record_dict(df[1])

\* A plausible slip: the selection claims the record it picks, marking it
\* in_progress in the store.
get_oldest_record_claiming(f, table_name, database, schema, pipeline_status) ==
  /\ call' = [op |-> "get_oldest_record_by_status", table_name |-> table_name,
              database |-> database, schema |-> schema,
              pipeline_status |-> pipeline_status]
  /\ \E df \in LimitOne(FirstAsc(WithStatus(
                 TableOf(database, schema, table_name).rows, pipeline_status))) :
       /\ fetch_all_rows_as_dataframe(f, database, schema, table_name,
                                      PickedRecord(df))
       /\ store' = IF df = <<>> \/ ConnectFails(f) \/ f = "execute"
                   THEN store
                   ELSE [store EXCEPT ![<<database, schema>>][table_name].rows =
                           (@ \ {df[1]}) \cup
                             {[df[1] EXCEPT !.pipeline_status = "in_progress"]}]
  /\ UNCHANGED <<wpc, wrec, ppc, pcand, pfound, rpc, rres>>

get_oldest_record_by_status(f, table_name, database, schema, pipeline_status) ==
  /\ call' = [op |-> "get_oldest_record_by_status", table_name |-> table_name,
              database |-> database, schema |-> schema,
              pipeline_status |-> pipeline_status]
  /\ \E df \in LimitOne(FirstAsc(WithStatus(
                 TableOf(database, schema, table_name).rows, pipeline_status))) :
       fetch_all_rows_as_dataframe(f, database, schema, table_name,
                                   PickedRecord(df))
  /\ UNCHANGED <<store, wpc, wrec, ppc, pcand, pfound, rpc, rres>>

get_latest_record_by_status(f, table_name, database, schema, pipeline_status) ==
  /\ call' = [op |-> "get_latest_record_by_status", table_name |-> table_name,
              database |-> database, schema |-> schema,
              pipeline_status |-> pipeline_status]
  /\ \E df \in LimitOne(FirstDesc(WithStatus(
                 TableOf(database, schema, table_name).rows, pipeline_status))) :
       fetch_all_rows_as_dataframe(f, database, schema, table_name,
                                   PickedRecord(df))
  /\ UNCHANGED <<store, wpc, wrec, ppc, pcand, pfound, rpc, rres>>

SelectOps == {"get_oldest_record_by_status", "get_latest_record_by_status"}

PickOldest ==
  \E f \in Failures, pipeline_status \in SelectStatuses :
    get_oldest_record_by_status(f, TrackTable, "DB1", "S1", pipeline_status)

PickLatest ==
  \E f \in Failures, pipeline_status \in SelectStatuses :
    get_latest_record_by_status(f, TrackTable, "DB1", "S1", pipeline_status)

\* The caller repeats the selection it made last, with the same arguments.
PickAgain ==
  /\ call.op \in SelectOps
  /\ \E f \in Failures :
       IF call.op = "get_oldest_record_by_status"
       THEN get_oldest_record_by_status(f, call.table_name, call.database,
                                        call.schema, call.pipeline_status)
       ELSE get_latest_record_by_status(f, call.table_name, call.database,
                                        call.schema, call.pipeline_status)

\* Rows the selection specification draws its tables from.
SelectRows ==
  {Row("p1", "i1", iv[1], iv[2], st) : iv \in Intervals, st \in Statuses}

InitSelect ==
  /\ \E rows \in SubsetsUpTo(SelectRows, MaxRows) : store = StoreWith(rows)
  /\ Idle

NextSelect ==
  \/ call = NoCall /\ PickOldest
  \/ call = NoCall /\ PickLatest
  \/ PickAgain
  \/ Return

SpecSelect == InitSelect /\ [][NextSelect]_vars

\* ------------------------------------------------------ continuity checker
Null == -1

\* ORDER BY: the sequences that list every element of I once, ascending in
\* the key k[i]; elements that tie on the key may come in any order.
RECURSIVE OrderBy(_, _)
OrderBy(I, k) ==
  IF I = {} THEN {<<>>}
  ELSE UNION {{<<i>> \o t : t \in OrderBy(I \ {i}, k)} :
              i \in {j \in I : \A h \in I : k[j] <= k[h]}}

\* A plausible slip: the pipeline_name condition is left out.
DayWindowsAnyPipeline(rows, day, pipeline_name, index_name) ==
  {r \in rows : /\ DayOf(r.query_window_start_ts) = ToDate(day)
                /\ r.index_name = index_name}

\* WHERE DATE(query_window_start_ts) = %(day)s AND pipeline_name = ... AND
\* index_name = ...
DayWindows(rows, day, pipeline_name, index_name) ==
  {r \in rows : /\ DayOf(r.query_window_start_ts) = ToDate(day)
                /\ r.pipeline_name = pipeline_name
                /\ r.index_name = index_name}

\* A plausible slip: the lag is taken over the start column.
LagStart(w, i) == IF i = 1 THEN Null ELSE w[i - 1].query_window_start_ts

\* LAG(query_window_end_ts) OVER (ORDER BY query_window_start_ts): NULL on
\* the first row of the ordering w.
LagEnd(w, i) == IF i = 1 THEN Null ELSE w[i - 1].query_window_end_ts

\* The CTE ordered_windows for the ordering w of the day's windows.
ordered_windows(w) ==
  [i \in 1..Len(w) |->
     [query_window_start_ts |-> w[i].query_window_start_ts,
      query_window_end_ts |-> w[i].query_window_end_ts,
      prev_end_ts |-> LagEnd(w, i)]]

\* A plausible slip: the IS NOT NULL test is left out.
IsDiscontinuityNoNullTest(o) == o.query_window_start_ts # o.prev_end_ts

\* WHERE prev_end_ts IS NOT NULL AND query_window_start_ts != prev_end_ts
IsDiscontinuity(o) ==
  o.prev_end_ts # Null /\ o.query_window_start_ts # o.prev_end_ts

\* SELECT prev_end_ts AS missing_query_window_start_ts,
\*        query_window_start_ts AS missing_query_window_end_ts
MissingWindow(o) ==
  [missing_query_window_start_ts |-> o.prev_end_ts,
   missing_query_window_end_ts |-> o.query_window_start_ts]

\* The DataFrames the discontinuity query may return: the missing windows of
\* some ordering of the day's windows, ORDER BY missing_query_window_start_ts.
DiscontinuityFrames(rows, day, pipeline_name, index_name) ==
  LET W == DayWindows(rows, day, pipeline_name, index_name)
  IN UNION {
       LET o == SelectSeq(ordered_windows(w), IsDiscontinuity)
           m == [i \in 1..Len(o) |-> MissingWindow(o[i])]
           k == [i \in 1..Len(m) |-> m[i].missing_query_window_start_ts]
       IN {[j \in 1..Len(p) |-> m[p[j]]] : p \in OrderBy(1..Len(m), k)}
       : w \in OrderBy(W, [r \in W |-> r.query_window_start_ts])}

\* gaps: each missing window with its two timestamps as ISO text.
GapDict(r) ==
  [missing_query_window_start_ts |-> isoformat(r.missing_query_window_start_ts),
   missing_query_window_end_ts |-> isoformat(r.missing_query_window_end_ts)]

\* df.empty -> continuous; else the list of gaps.
Continuity(df) ==
  IF df = <<>>
  THEN [is_continuous |-> TRUE, discontinuities |-> <<>>]
  ELSE [is_continuous |-> FALSE,
        discontinuities |-> [i \in 1..Len(df) |-> GapDict(df[i])]]

get_discontinuous_query_windows(f, day, pipeline_name, index_name, table_name, database, schema) ==
  /\ call' = [op |-> "get_discontinuous_query_windows", day |-> day,
              pipeline_name |-> pipeline_name, index_name |-> index_name,
              table_name |-> table_name, database |-> database,
              schema |-> schema]
  /\ \E df \in DiscontinuityFrames(TableOf(database, schema, table_name).rows,
                                   day, pipeline_name, index_name) :
       fetch_all_rows_as_dataframe(f, database, schema, table_name,
                                   Continuity(df))
  /\ UNCHANGED <<store, wpc, wrec, ppc, pcand, pfound, rpc, rres>>

DayStrings == {<<d>> : d \in Days}

CheckContinuity ==
  \E f \in Failures, day \in DayStrings, pipeline_name \in PipelineNames,
     index_name \in IndexNames :
    get_discontinuous_query_windows(f, day, pipeline_name, index_name,
                                    TrackTable, "DB1", "S1")

\* The caller repeats the check it made last, with the same arguments.
CheckContinuityAgain ==
  /\ call.op = "get_discontinuous_query_windows"
  /\ \E f \in Failures :
       get_discontinuous_query_windows(f, call.day, call.pipeline_name,
                                       call.index_name, call.table_name,
                                       call.database, call.schema)

\* Rows the continuity specification draws its tables from: every window of
\* scope (p1, i1), and one window of another pipeline.
ContinuityRows ==
  {Row("p1", "i1", iv[1], iv[2], "completed") : iv \in Intervals}
    \cup {Row("p2", "i1", 1, 2, "completed")}

InitContinuity ==
  /\ \E rows \in SubsetsUpTo(ContinuityRows, MaxGapRows) : store = StoreWith(rows)
  /\ Idle

NextContinuity ==
  \/ call = NoCall /\ CheckContinuity
  \/ CheckContinuityAgain
  \/ Return

SpecContinuity == InitContinuity /\ [][NextContinuity]_vars

\* ---------------------------------------------- diagnostic self-join scan
\* start_ts = f"{date_str} 00:00:00"; end_expr = DATEADD(day, 1, date_str)
DayStart(date_str) == ToDate(date_str) * DayLen
DayEndExpr(date_str) == (ToDate(date_str) + 1) * DayLen

\* The CTE filtered_day_data.
filtered_day_data(rows, pipeline_name, index_name, date_str) ==
  {r \in rows : /\ r.pipeline_name = pipeline_name
                /\ r.index_name = index_name
                /\ r.query_window_start_ts < DayEndExpr(date_str)
                /\ r.query_window_end_ts > DayStart(date_str)}

\* The INNER JOIN's ON condition.
JoinOn(t1, t2) ==
  /\ t1.query_window_start_ts < t2.query_window_end_ts
  /\ t1.query_window_end_ts > t2.query_window_start_ts
  /\ t1.query_window_start_ts # t2.query_window_start_ts

\* The SELECT list of the join.
OverlapPair(t1, t2) ==
  [source_window_start_ts |-> t1.query_window_start_ts,
   source_window_end_ts |-> t1.query_window_end_ts,
   overlaps_with_start_ts |-> t2.query_window_start_ts,
   overlaps_with_end_ts |-> t2.query_window_end_ts]

\* ORDER BY source_window_start_ts, overlaps_with_start_ts, as one key.
PairKey(pr) ==
  pr[1].query_window_start_ts * (MaxT + 1) + pr[2].query_window_start_ts

\* The DataFrames the scan may return.
ScanFrames(rows, pipeline_name, index_name, date_str) ==
  LET F == filtered_day_data(rows, pipeline_name, index_name, date_str)
      J == {pr \in F \X F : JoinOn(pr[1], pr[2])}
  IN {[i \in 1..Len(p) |-> OverlapPair(p[i][1], p[i][2])] :
        p \in OrderBy(J, [pr \in J |-> PairKey(pr)])}

find_overlapping_query_windows(f, database, schema, table_name, pipeline_name, index_name, date_str) ==
  /\ call' = [op |-> "find_overlapping_query_windows", database |-> database,
              schema |-> schema, table_name |-> table_name,
              pipeline_name |-> pipeline_name, index_name |-> index_name,
              date_str |-> date_str]
  /\ \E df \in ScanFrames(TableOf(database, schema, table_name).rows,
                          pipeline_name, index_name, date_str) :
       fetch_all_rows_as_dataframe(f, database, schema, table_name, df)
  /\ UNCHANGED <<store, wpc, wrec, ppc, pcand, pfound, rpc, rres>>

ScanOverlaps ==
  \E f \in Failures, date_str \in DayStrings, pipeline_name \in PipelineNames,
     index_name \in IndexNames :
    find_overlapping_query_windows(f, "DB1", "S1", TrackTable, pipeline_name,
                                   index_name, date_str)

\* Rows the scan specification draws its tables from.
ScanRows ==
  {Row("p1", "i1", iv[1], iv[2], "pending") : iv \in Intervals}
    \cup {Row("p2", "i1", 1, 2, "pending")}

InitScan ==
  /\ \E rows \in SubsetsUpTo(ScanRows, MaxScanRows) : store = StoreWith(rows)
  /\ Idle

NextScan ==
  \/ call = NoCall /\ ScanOverlaps
  \/ Return

SpecScan == InitScan /\ [][NextScan]_vars

\* ------------------------------------------------------ provisioning gate
TableDefs == {"d1", "d2"}

\* create_query: a CREATE TABLE IF NOT EXISTS statement for a table.
CreateStatement(t, d) ==
  [stmt |-> "CREATE TABLE IF NOT EXISTS", table |-> t, def |-> d]

CreateStatements == {CreateStatement(t, d) : t \in TableNames, d \in TableDefs}

\* A plausible slip: a plain CREATE TABLE, an error on an existing table.
RunCreatePlain(tbl, query) ==
  IF tbl.exists
  THEN [error |-> "table exists", table |-> tbl]
  ELSE [error |-> "", table |-> Table(query.def, {})]

\* cursor.execute(create_query): an existing table is left as it is, a
\* missing one is created empty with the statement's definition.
RunCreate(tbl, query) ==
  IF tbl.exists
  THEN [error |-> "", table |-> tbl]
  ELSE [error |-> "", table |-> Table(query.def, {})]

\* execute_control_command: get_active_connection, USE DATABASE, USE SCHEMA,
\* execute; any exception inside the try is re-raised as RuntimeError.
execute_control_command(f, query, database, schema, returned) ==
  LET ns == <<database, schema>>
      run == RunCreate(store[ns][query.table], query)
  IN IF ConnectFails(f)
     THEN /\ ret' = Raised("ConnectionError", "connect failed", 0)
          /\ UNCHANGED <<connection, session, store>>
     ELSE /\ connection' = "open"
          /\ session' = ns
          /\ IF f = "execute" \/ run.error # ""
             THEN /\ ret' = Raised("RuntimeError",
                                   IF f = "execute" THEN "store failure"
                                   ELSE run.error, 1)
                  /\ UNCHANGED store
             ELSE /\ ret' = Ok(returned)
                  /\ store' = [store EXCEPT ![ns][query.table] = run.table]

create_table_if_not_exists(f, create_query, database, schema) ==
  /\ call' = [op |-> "create_table_if_not_exists", create_query |-> create_query,
              database |-> database, schema |-> schema]
  /\ execute_control_command(f, create_query, database, schema,
                             [executed |-> TRUE])
  /\ UNCHANGED <<wpc, wrec, ppc, pcand, pfound, rpc, rres>>

EnsureTable ==
  \E f \in Failures, create_query \in CreateStatements, database \in Databases :
    create_table_if_not_exists(f, create_query, database, "S1")

\* The caller provisions again, with the same statement and namespace.
EnsureTableAgain ==
  /\ call.op = "create_table_if_not_exists"
  /\ \E f \in Failures :
       create_table_if_not_exists(f, call.create_query, call.database,
                                  call.schema)

\* execute_dml_query: get_active_connection, USE DATABASE, USE SCHEMA,
\* execute, rowcount; any exception inside the try is re-raised as
\* RuntimeError.  `rows` is the table after the statement, `rows_affected`
\* the statement's row count.
execute_dml_query(f, database, schema, table_name, rows, rows_affected) ==
  LET ns == <<database, schema>>
  IN IF ConnectFails(f)
     THEN /\ ret' = Raised("ConnectionError", "connect failed", 0)
          /\ UNCHANGED <<connection, session, store>>
     ELSE /\ connection' = "open"
          /\ session' = ns
          /\ IF ExecuteFails(f, database, schema, table_name)
             THEN /\ ret' = Raised("RuntimeError", ExecuteError(f), 1)
                  /\ UNCHANGED store
             ELSE /\ ret' = Ok([rows_affected |-> rows_affected])
                  /\ store' = [store EXCEPT ![ns][table_name].rows = rows]

\* The producer's INSERT of one interval record.
InsertRecord ==
  \E f \in Failures, database \in Databases, table_name \in TableNames :
    LET r == Row("p1", "i1", 0, 1, "pending")
    IN /\ call' = [op |-> "execute_dml_query", database |-> database,
                   schema |-> "S1", table_name |-> table_name]
       /\ execute_dml_query(f, database, "S1", table_name,
            TableOf(database, "S1", table_name).rows \cup {r}, 1)
       /\ UNCHANGED <<wpc, wrec, ppc, pcand, pfound, rpc, rres>>

InitProvision ==
  /\ store = EmptyStore
  /\ Idle

NextProvision ==
  \/ call = NoCall /\ EnsureTable
  \/ EnsureTableAgain
  \/ call = NoCall /\ InsertRecord
  \/ Return

SpecProvision == InitProvision /\ [][NextProvision]_vars

\* ---------------------------------------------------------- claim workers
\* Each worker is a process with a client of its own; one store call is one
\* step.  A worker selects the oldest pending record, then marks it
\* in_progress with a separate UPDATE through execute_dml_query.
Workers == 1..NumWorkers

\* The stored rows the UPDATE's WHERE clause matches: the columns of the
\* record selected, and, when the statement is guarded, the pending status.
ClaimMatches(rows, rec, guarded) ==
  {r \in rows : /\ r.pipeline_name = rec.pipeline_name
                /\ r.index_name = rec.index_name
                /\ r.query_window_start_ts = ToTimestamp(rec.query_window_start_ts)
                /\ r.query_window_end_ts = ToTimestamp(rec.query_window_end_ts)
                /\ guarded => r.pipeline_status = "pending"}

\* UPDATE ... SET pipeline_status = 'in_progress' WHERE ...
ClaimUpdate(rows, rec, guarded) ==
  LET M == ClaimMatches(rows, rec, guarded)
  IN (rows \ M) \cup {[r EXCEPT !.pipeline_status = "in_progress"] : r \in M}

\* get_oldest_record_by_status(..., "pending") by worker w.
WorkerSelect(w) ==
  /\ wpc[w] = "idle"
  /\ \E df \in LimitOne(FirstAsc(WithStatus(TrackRowsOf(store), "pending"))) :
       /\ wrec' = [wrec EXCEPT ![w] = PickedRecord(df)]
       /\ wpc' = [wpc EXCEPT ![w] =
                    IF PickedRecord(df) = None THEN "none" ELSE "picked"]
  /\ UNCHANGED <<store, connection, session, call, ret, ppc, pcand, pfound, rpc, rres>>

\* execute_dml_query with the UPDATE by worker w; rows_affected decides
\* whether the worker takes the record as claimed.
WorkerMark(w) ==
  /\ wpc[w] = "picked"
  /\ \E guarded \in BOOLEAN :
       LET rows == TrackRowsOf(store)
           rows_affected == Cardinality(ClaimMatches(rows, wrec[w], guarded))
       IN /\ store' = [store EXCEPT ![DefaultNs][TrackTable].rows =
                         ClaimUpdate(rows, wrec[w], guarded)]
          /\ wpc' = [wpc EXCEPT ![w] =
                       IF rows_affected > 0 THEN "claimed" ELSE "lost"]
  /\ UNCHANGED <<connection, session, call, ret, wrec, ppc, pcand, pfound, rpc, rres>>

\* Tables with exactly one pending record, and at most one other record.
WorkerTables ==
  {{pr} \cup other :
     pr \in {Row("p1", "i1", iv[1], iv[2], "pending") : iv \in Intervals},
     other \in SubsetsUpTo(
       {Row("p1", "i1", iv[1], iv[2], st) :
          iv \in Intervals, st \in Statuses \ {"pending"}}, 1)}

InitWorkers ==
  /\ \E rows \in WorkerTables : store = StoreWith(rows)
  /\ connection = "none" /\ session = DefaultNs
  /\ call = NoCall /\ ret = NoRet
  /\ wpc = [w \in Workers |-> "idle"]
  /\ wrec = [w \in Workers |-> None]
  /\ ppc = <<>> /\ pcand = <<>> /\ pfound = <<>>
  /\ rpc = <<>> /\ rres = <<>>

NextWorkers ==
  \E w \in Workers : WorkerSelect(w) \/ WorkerMark(w)

SpecWorkers == InitWorkers /\ [][NextWorkers]_vars

\* -------------------------------------------------------------- producers
\* Each producer is a process with a client of its own; one store call is
\* one step.  A producer runs the admission check for its candidate, then
\* inserts the candidate as pending when the check returned nothing.
Producers == 1..NumProducers

\* find_overlapping_records_for_input for a candidate of scope (p1, i1).
ProducerCheck(p) ==
  /\ ppc[p] = "idle"
  /\ \E iv \in Intervals :
       /\ pcand' = [pcand EXCEPT ![p] = iv]
       /\ pfound' = [pfound EXCEPT ![p] =
            OverlapQuery(TrackRowsOf(store), "p1", "i1",
                         isoformat(iv[1]), isoformat(iv[2]))]
  /\ ppc' = [ppc EXCEPT ![p] = "checked"]
  /\ UNCHANGED <<store, connection, session, call, ret, wpc, wrec, rpc, rres>>

\* The INSERT of the admitted candidate; a rejected candidate is dropped.
ProducerInsert(p) ==
  /\ ppc[p] = "checked"
  /\ store' = IF pfound[p] = {}
              THEN [store EXCEPT ![DefaultNs][TrackTable].rows =
                      @ \cup {Row("p1", "i1", pcand[p][1], pcand[p][2], "pending")}]
              ELSE store
  /\ ppc' = [ppc EXCEPT ![p] = "done"]
  /\ UNCHANGED <<connection, session, call, ret, wpc, wrec, pcand, pfound, rpc, rres>>

InitProducers ==
  /\ \E rows \in SubsetsUpTo(
        {Row("p1", "i1", iv[1], iv[2], "completed") : iv \in Intervals}, 1) :
       store = StoreWith(rows)
  /\ connection = "none" /\ session = DefaultNs
  /\ call = NoCall /\ ret = NoRet
  /\ wpc = <<>> /\ wrec = <<>>
  /\ ppc = [p \in Producers |-> "idle"]
  /\ pcand = [p \in Producers |-> <<0, 0>>]
  /\ pfound = [p \in Producers |-> {}]
  /\ rpc = <<>> /\ rres = <<>>

NextProducers ==
  \E p \in Producers : ProducerCheck(p) \/ ProducerInsert(p)

SpecProducers == InitProducers /\ [][NextProducers]_vars

\* ---------------------------------------------------------------- readers
\* Threads that share one SnowflakeQueryClient, and so its one connection
\* and that connection's current database and schema.  Each runs the
\* admission check through fetch_all_rows_as_dataframe; one statement of the
\* method is one step.
Readers == 1..NumReaders

\* The database argument of reader r: the readers name different databases.
ReaderDatabase(r) == IF r = 1 THEN "DB1" ELSE "DB2"
ReaderSchema(r) == "S1"

\* The candidate every reader checks: the whole time line, scope (p1, i1).
ReaderStart == isoformat(0)
ReaderEnd == isoformat(MaxT)

\* conn = self.get_active_connection()
ReaderConnect(r) ==
  /\ rpc[r] = "idle"
  /\ connection' = "open"
  /\ rpc' = [rpc EXCEPT ![r] = "connected"]
  /\ UNCHANGED <<store, session, call, ret, wpc, wrec, ppc, pcand, pfound, rres>>

\* cursor.execute(f"USE DATABASE {database}")
ReaderUseDatabase(r) ==
  /\ rpc[r] = "connected"
  /\ session' = <<ReaderDatabase(r), session[2]>>
  /\ rpc' = [rpc EXCEPT ![r] = "database"]
  /\ UNCHANGED <<store, connection, call, ret, wpc, wrec, ppc, pcand, pfound, rres>>

\* cursor.execute(f"USE SCHEMA {schema}")
ReaderUseSchema(r) ==
  /\ rpc[r] = "database"
  /\ session' = <<session[1], ReaderSchema(r)>>
  /\ rpc' = [rpc EXCEPT ![r] = "schema"]
  /\ UNCHANGED <<store, connection, call, ret, wpc, wrec, ppc, pcand, pfound, rres>>

\* cursor.execute(query, query_params); fetch_pandas_all(): the table name
\* resolves in the connection's current database and schema.
ReaderQuery(r) ==
  /\ rpc[r] = "schema"
  /\ rres' = [rres EXCEPT ![r] =
       [namespace |-> session,
        data |-> OverlapQuery(store[session][TrackTable].rows, "p1", "i1",
                              ReaderStart, ReaderEnd)]]
  /\ rpc' = [rpc EXCEPT ![r] = "done"]
  /\ UNCHANGED <<store, connection, session, call, ret, wpc, wrec, ppc, pcand, pfound>>

\* Rows the readers' tables are drawn from.
ReaderRows == {Row("p1", "i1", iv[1], iv[2], "pending") : iv \in Intervals}

\* The tracking table exists in every database, with contents of its own.
InitReaders ==
  /\ \E tables \in [Databases -> SubsetsUpTo(ReaderRows, 1)] :
       store = [ns \in Namespaces |->
                  [t \in TableNames |->
                     IF t = TrackTable THEN Table("d1", tables[ns[1]])
                     ELSE NoTable]]
  /\ connection = "none" /\ session = DefaultNs
  /\ call = NoCall /\ ret = NoRet
  /\ wpc = <<>> /\ wrec = <<>>
  /\ ppc = <<>> /\ pcand = <<>> /\ pfound = <<>>
  /\ rpc = [r \in Readers |-> "idle"]
  /\ rres = [r \in Readers |-> [namespace |-> <<>>, data |-> {}]]

NextReaders ==
  \E r \in Readers :
    \/ ReaderConnect(r)
    \/ ReaderUseDatabase(r)
    \/ ReaderUseSchema(r)
    \/ ReaderQuery(r)

SpecReaders == InitReaders /\ [][NextReaders]_vars

\* ------------------------------------------------------ engine operations
\* Every engine operation, called one after the other by one caller.
EngineRows == {Row("p1", "i1", 0, e, "pending") : e \in 1..MaxT}

InitEngine ==
  /\ \E rows \in SubsetsUpTo(EngineRows, MaxEngineRows) : store = StoreWith(rows)
  /\ Idle

NextEngine ==
  \/ call = NoCall /\ CheckOverlap
  \/ call = NoCall /\ CheckContinuity
  \/ call = NoCall /\ ScanOverlaps
  \/ call = NoCall /\ PickOldest
  \/ call = NoCall /\ PickLatest
  \/ call = NoCall /\ EnsureTable
  \/ Return

SpecEngine == InitEngine /\ [][NextEngine]_vars

\* The scoped read operations, on tables that hold windows of day 0 of scope
\* (p1, i1) next to a window of another pipeline and one of another index.
ScopeRows ==
  {Row("p1", "i1", iv[1], iv[2], "pending") :
     iv \in {w \in Intervals : w[2] <= DayLen}}
OtherScopeRows ==
  {Row("p2", "i1", 1, 2, "pending"), Row("p1", "i2", 0, 3, "pending")}

InitScope ==
  /\ \E rows \in SubsetsUpTo(ScopeRows, MaxScopeRows), others \in SUBSET OtherScopeRows :
       store = StoreWith(rows \cup others)
  /\ Idle

NextScope ==
  \/ call = NoCall /\ CheckOverlap
  \/ call = NoCall /\ CheckContinuity
  \/ call = NoCall /\ ScanOverlaps
  \/ Return

SpecScope == InitScope /\ [][NextScope]_vars

\* The tracking table's rows, and the call's candidate as instants.
TrackRows == store[DefaultNs][TrackTable].rows
SameScope(r) ==
  r.pipeline_name = call.pipeline_name /\ r.index_name = call.index_name
OverlapReturned ==
  /\ call.op = "find_overlapping_records_for_input"
  /\ ret.kind = "ok"

ContinuityReturned ==
  call.op = "get_discontinuous_query_windows" /\ ret.kind = "ok"

\* The stored rows of the call's day and scope, and their windows.
DayScopeRows ==
  {r \in TrackRows : /\ SameScope(r)
                     /\ r.query_window_start_ts \div DayLen = call.day[1]}
DayScopeWindows ==
  {<<r.query_window_start_ts, r.query_window_end_ts>> : r \in DayScopeRows}

\* The strictly increasing boundary lists d0 < d1 < d2 < d3 < d4.
Boundaries ==
  {<<d0, d1, d2, d3, d4>> :
     d0 \in Times, d1 \in Times, d2 \in Times, d3 \in Times, d4 \in Times}
Increasing(d) == \A i \in 1..4 : d[i] < d[i + 1]
Tiling(d) == {<<d[i], d[i + 1]>> : i \in 1..4}
TextOf(t) == <<t \div DayLen, t % DayLen>>

\* C4: when the stored windows of the day and scope exactly tile [d0,d4)
\* the checker returns is_continuous = TRUE and no discontinuity; with the
\* window [d1,d2) removed from the tiling it returns is_continuous = FALSE
\* and exactly one gap, from d1 to d2.
C4_TilingRoundTrip ==
  (ContinuityReturned /\ Cardinality(DayScopeRows) \in {3, 4}) =>
    \A d0 \in Times : \A d1 \in (d0 + 1)..MaxT : \A d2 \in (d1 + 1)..MaxT :
    \A d3 \in (d2 + 1)..MaxT : \A d4 \in (d3 + 1)..MaxT :
      LET d == <<d0, d1, d2, d3, d4>>
      IN /\ (DayScopeWindows = Tiling(d) /\ Cardinality(DayScopeRows) = 4) =>
              /\ ret.data.is_continuous
              /\ ret.data.discontinuities = <<>>
         /\ (DayScopeWindows = Tiling(d) \ {<<d1, d2>>}
               /\ Cardinality(DayScopeRows) = 3) =>
              /\ ~ret.data.is_continuous
              /\ ret.data.discontinuities =
                   <<[missing_query_window_start_ts |-> TextOf(d1),
                      missing_query_window_end_ts |-> TextOf(d2)]>>

\* C4 witness: a tiling without its second window, the missing window
\* stored under another pipeline only, and the one gap reported.
C4_Witness ==
  /\ ContinuityReturned
  /\ Cardinality(DayScopeRows) = 3
  /\ Cardinality(TrackRows) = 4
  /\ Len(ret.data.discontinuities) = 1
  /\ \E d \in Boundaries :
       Increasing(d) /\ DayScopeWindows = Tiling(d) \ {<<d[2], d[3]>>}

\* C5: with no stored window or exactly one for the day and scope the
\* checker returns is_continuous = TRUE and an empty discontinuity list,
\* whatever part of the day the single window covers.
C5_AtMostOneWindow ==
  (ContinuityReturned /\ Cardinality(DayScopeRows) <= 1) =>
    /\ ret.data.is_continuous
    /\ ret.data.discontinuities = <<>>

\* C5 witness: a single window that starts after the day does and ends
\* before it, reported as continuous.
C5_Witness ==
  /\ ContinuityReturned
  /\ \E r \in TrackRows :
       /\ DayScopeRows = {r}
       /\ r.query_window_start_ts % DayLen > 0
       /\ r.query_window_end_day = r.query_window_start_day
  /\ ret.data.is_continuous

ScanReturned == call.op = "find_overlapping_query_windows" /\ ret.kind = "ok"

\* The stored rows of the scan's scope whose window meets the scan's day.
ScanDayRows ==
  {r \in TrackRows :
     /\ SameScope(r)
     /\ r.query_window_start_ts < (call.date_str[1] + 1) * DayLen
     /\ r.query_window_end_ts > call.date_str[1] * DayLen}

Reported(a, b) ==
  \E i \in 1..Len(ret.data) :
    /\ ret.data[i].source_window_start_ts = a.query_window_start_ts
    /\ ret.data[i].source_window_end_ts = a.query_window_end_ts
    /\ ret.data[i].overlaps_with_start_ts = b.query_window_start_ts
    /\ ret.data[i].overlaps_with_end_ts = b.query_window_end_ts

\* C10: in the self-join scan two distinct stored records of the scope and
\* day with the same window start and intersecting ranges are reported as
\* overlapping each other; only a record paired with itself is left out.
C10_SameStartReported ==
  ScanReturned =>
    \A a \in ScanDayRows : \A b \in ScanDayRows :
      (/\ a # b
       /\ a.query_window_start_ts = b.query_window_start_ts
       /\ a.query_window_start_ts < b.query_window_end_ts
       /\ a.query_window_end_ts > b.query_window_start_ts) => Reported(a, b)

ProvisionCalled == call.op = "create_table_if_not_exists"

WorkersDone == \A w \in Workers : wpc[w] \in {"none", "claimed", "lost"}

\* C2: of N workers that each select the oldest pending record and then
\* mark it in_progress, against a store with exactly one pending record,
\* exactly one claims it and the others find no record available; no record
\* is claimed by two workers.
C2_ExactlyOneClaim ==
  /\ WorkersDone =>
       /\ Cardinality({w \in Workers : wpc[w] = "claimed"}) = 1
       /\ Cardinality({w \in Workers : wpc[w] = "none"}) = NumWorkers - 1
  /\ \A v \in DOMAIN wpc : \A w \in DOMAIN wpc :
       (v # w /\ wpc[v] = "claimed" /\ wpc[w] = "claimed") => wrec[v] # wrec[w]

Live == {"pending", "in_progress", "completed"}

\* C3: under every interleaving of producers that check and then insert,
\* no two live records of the scope overlap (a.start < b.end and
\* a.end > b.start).
C3_NonOverlapInvariant ==
  \A a \in TrackRows : \A b \in TrackRows :
    (/\ a # b
     /\ a.pipeline_name = b.pipeline_name /\ a.index_name = b.index_name
     /\ a.pipeline_status \in Live /\ b.pipeline_status \in Live) =>
      ~(/\ a.query_window_start_ts < b.query_window_end_ts
        /\ a.query_window_end_ts > b.query_window_start_ts)

SelectReturned == call.op \in SelectOps /\ ret.kind = "ok"
StartOf(rec) ==
  rec.query_window_start_ts[1] * DayLen + rec.query_window_start_ts[2]

\* C6: for every table and recognized status s, the oldest selection returns
\* a stored record of status s with the minimum window start among the
\* records of status s, the latest one with the maximum, and both return
\* None exactly when no record has status s.
C6_OldestLatest ==
  (SelectReturned /\ call.pipeline_status \in Statuses) =>
    LET S == {r \in TrackRows : r.pipeline_status = call.pipeline_status}
    IN /\ (ret.data = None) <=> (S = {})
       /\ ret.data # None =>
            /\ ret.data.pipeline_status = call.pipeline_status
            /\ \E r \in S :
                 /\ ret.data.pipeline_name = r.pipeline_name
                 /\ ret.data.index_name = r.index_name
                 /\ StartOf(ret.data) = r.query_window_start_ts
                 /\ ret.data.query_window_end_ts = isoformat(r.query_window_end_ts)
            /\ call.op = "get_oldest_record_by_status" =>
                 \A q \in S : StartOf(ret.data) <= q.query_window_start_ts
            /\ call.op = "get_latest_record_by_status" =>
                 \A q \in S : StartOf(ret.data) >= q.query_window_start_ts

\* C6 witness: two records of the requested status with different starts,
\* and the oldest selection has returned the earlier one.
C6_Witness ==
  /\ SelectReturned /\ call.op = "get_oldest_record_by_status"
  /\ ret.data # None
  /\ \E q \in TrackRows :
       /\ q.pipeline_status = call.pipeline_status
       /\ q.query_window_start_ts > StartOf(ret.data)

\* C7: a selection called with a status outside the four recognized values
\* is rejected as a validation error; it never returns normally.
C7_BogusStatusRejected ==
  (call.op \in SelectOps /\ call.pipeline_status \notin Statuses) =>
    ret.kind = "ValueError"

\* C8: repeating a selection against an unchanged store returns the same
\* record, also when several records of the status share the extreme start.
C8_RepeatableSelection ==
  [][(/\ SelectReturned
      /\ call' = call /\ ret'.kind = "ok"
      /\ store' = store) => ret'.data = ret.data]_vars

OverlapCalled == call.op = "find_overlapping_records_for_input"

\* C11: the admission check rejects a validation error (a malformed start or
\* end timestamp, an empty pipeline_name or index_name) by raising before any
\* store call: the call raises the validation error and has made no store
\* call.
C11_ValidationBeforeStore ==
  (/\ OverlapCalled
   /\ \/ call.start_ts = <<>> \/ call.end_ts = <<>>
      \/ call.pipeline_name = "" \/ call.index_name = "") =>
    ret.kind = "ValueError" /\ ret.store_calls = 0

\* C16: for every table and every candidate with window_end > window_start
\* the admission check returns exactly the stored records of the scope with
\* stored.start < candidate.end and stored.end > candidate.start: the day
\* pre-filter removes none of them.
C16_PrefilterNeverChangesAnswer ==
  OverlapReturned =>
    LET Bs == call.start_ts[1] * DayLen + call.start_ts[2]
        Be == call.end_ts[1] * DayLen + call.end_ts[2]
    IN Bs < Be =>
         ret.data = {r \in TrackRows :
                       /\ SameScope(r)
                       /\ r.query_window_start_ts < Be
                       /\ r.query_window_end_ts > Bs}

\* C16 witness: the stored record spans midnight, the candidate lies on the
\* record's end day and starts where that day starts; the check returns the
\* record.
C16_Witness ==
  /\ OverlapReturned
  /\ \E r \in TrackRows :
       /\ ret.data = {r}
       /\ r.query_window_start_day < r.query_window_end_day
       /\ call.start_ts = <<r.query_window_end_day, 0>>
       /\ call.end_ts[1] = r.query_window_end_day

\* The i-th gap returned, as a pair of instants.
GapStart(i) ==
  LET t == ret.data.discontinuities[i].missing_query_window_start_ts
  IN t[1] * DayLen + t[2]
GapEnd(i) ==
  LET t == ret.data.discontinuities[i].missing_query_window_end_ts
  IN t[1] * DayLen + t[2]
GapIndexes == 1..Len(ret.data.discontinuities)

\* C17: for a fixed set of stored windows of a day and scope the continuity
\* check is deterministic and ordered: the gaps are sorted ascending by gap
\* start, and a repeated call against the unchanged table returns the same
\* list of gaps, also when two stored windows share their start.
C17_GapsDeterministicOrdered ==
  /\ [](ContinuityReturned =>
          \A i \in GapIndexes : \A j \in GapIndexes :
            i < j => GapStart(i) <= GapStart(j))
  /\ [][(/\ ContinuityReturned
         /\ call' = call /\ ret'.kind = "ok"
         /\ store' = store) => ret'.data = ret.data]_vars

\* C19: every gap returned is a missing sub-range: it starts strictly before
\* it ends, and no stored window of the day and scope covers any part of it,
\* also when stored windows overlap or are nested.
C19_GapsGenuine ==
  ContinuityReturned =>
    \A i \in GapIndexes :
      /\ GapStart(i) < GapEnd(i)
      /\ \A r \in DayScopeRows :
           ~(/\ r.query_window_start_ts < GapEnd(i)
             /\ r.query_window_end_ts > GapStart(i))

\* The i-th row of the scan's result is the j-th one with its sides swapped.
Mirrored(i, j) ==
  /\ ret.data[j].source_window_start_ts = ret.data[i].overlaps_with_start_ts
  /\ ret.data[j].source_window_end_ts = ret.data[i].overlaps_with_end_ts
  /\ ret.data[j].overlaps_with_start_ts = ret.data[i].source_window_start_ts
  /\ ret.data[j].overlaps_with_end_ts = ret.data[i].source_window_end_ts

\* The i-th row does not come after the j-th in (source start, overlap start).
NotAfter(i, j) ==
  \/ ret.data[i].source_window_start_ts < ret.data[j].source_window_start_ts
  \/ /\ ret.data[i].source_window_start_ts = ret.data[j].source_window_start_ts
     /\ ret.data[i].overlaps_with_start_ts <= ret.data[j].overlaps_with_start_ts

\* C15: the scan of a day and scope lists every pair of distinct stored
\* windows of the scope meeting the day whose ranges overlap, in both
\* directions (with the row for A and B it has the row for B and A), ordered
\* ascending by (source start, overlaps-with start).
C15_ScanCompleteSymmetricOrdered ==
  ScanReturned =>
    /\ \A a \in ScanDayRows : \A b \in ScanDayRows :
         (/\ a # b
          /\ a.query_window_start_ts < b.query_window_end_ts
          /\ a.query_window_end_ts > b.query_window_start_ts) =>
           Reported(a, b) /\ Reported(b, a)
    /\ \A i \in 1..Len(ret.data) : \E j \in 1..Len(ret.data) : Mirrored(i, j)
    /\ \A i \in 1..Len(ret.data) : \A j \in 1..Len(ret.data) :
         i < j => NotAfter(i, j)

ReadOps ==
  {"find_overlapping_records_for_input", "find_overlapping_query_windows",
   "get_discontinuous_query_windows", "get_oldest_record_by_status",
   "get_latest_record_by_status"}
EngineOps == ReadOps \cup {"create_table_if_not_exists"}

\* C12: when the store call of an engine operation fails, the operation
\* makes no further attempt, returns no result and raises the one uniform
\* execution failure (RuntimeError) that carries the original cause.
C12_UniformExecutionFailure ==
  (call.op \in EngineOps /\ ret.kind \notin {"ok", "ValueError"}) =>
    /\ ret.kind = "RuntimeError"
    /\ ret.cause # ""
    /\ ret.data = {}
    /\ ret.store_calls <= 1

\* C13: a call of the overlap detector (either mode), the continuity checker
\* or a selector, whether it succeeds, returns nothing or fails, leaves every
\* table as it was: no record is created, deleted or given another status.
C13_ReadOnly ==
  [][call'.op \in ReadOps => store' = store]_vars

\* C13 witness: the oldest selection has returned a pending record, and the
\* record is in the table, still pending.
C13_Witness ==
  /\ call.op = "get_oldest_record_by_status" /\ ret.kind = "ok"
  /\ ret.data # None
  /\ \E r \in TrackRows :
       /\ r.pipeline_status = "pending"
       /\ ret.data.pipeline_status = "pending"
       /\ StartOf(ret.data) = r.query_window_start_ts

\* The stored rows of the scope the call names.
ScopeOnly == {r \in TrackRows : SameScope(r)}

\* C18: records of another pipeline_name or index_name never appear in the
\* result of the overlap detector (either mode) or the continuity checker,
\* and never change it: the result is one the operation returns on the table
\* with the records of every other scope removed.
C18_ScopesIndependent ==
  /\ OverlapReturned =>
       /\ \A r \in ret.data : SameScope(r)
       /\ ret.data = OverlapQuery(ScopeOnly, call.pipeline_name, call.index_name,
                                  call.start_ts, call.end_ts)
  /\ ContinuityReturned =>
       \E df \in DiscontinuityFrames(ScopeOnly, call.day, call.pipeline_name,
                                     call.index_name) : ret.data = Continuity(df)
  /\ ScanReturned =>
       ret.data \in ScanFrames(ScopeOnly, call.pipeline_name, call.index_name,
                               call.date_str)

\* C18 witness: two windows of the scope tile part of the day, a window of
\* another pipeline starts on the same day, and the check reports the scope
\* continuous.
C18_Witness ==
  /\ ContinuityReturned
  /\ ret.data.is_continuous
  /\ Cardinality(DayScopeRows) = 2
  /\ \E r \in TrackRows :
       /\ r.pipeline_name # call.pipeline_name
       /\ r.index_name = call.index_name
       /\ r.query_window_start_ts \div DayLen = call.day[1]

\* C14: when callers run the admission check concurrently through one
\* client with different database arguments, under every interleaving of
\* their USE DATABASE, USE SCHEMA and query steps each caller's query runs
\* against the database and schema it passed and returns the rows it returns
\* when run alone.
C14_ConcurrentReadersIsolated ==
  \A r \in DOMAIN rpc :
    rpc[r] = "done" =>
      LET target == <<ReaderDatabase(r), ReaderSchema(r)>>
      IN /\ rres[r].namespace = target
         /\ rres[r].data =
              {x \in store[target][TrackTable].rows :
                 /\ x.pipeline_name = "p1" /\ x.index_name = "i1"
                 /\ x.query_window_start_ts < MaxT
                 /\ x.query_window_end_ts > 0}

====
